---------------------------- MODULE Spec2Model ----------------------------
(***************************************************************************)
(* A model of ing2qif.py: the conversion of ING bank statements (CSV) to   *)
(* a QIF document.                                                         *)
(*                                                                         *)
(* Strings are sequences of one-character strings, so that index, slice,   *)
(* startswith, strip, replace and join are computed character by           *)
(* character as Python computes them.  A CSV row is a function from the    *)
(* column names of the header to strings; a column the header lacks is a   *)
(* key outside the row's DOMAIN.  Every row of one file has the header's   *)
(* columns (csv.DictReader), and rows are as long as the header.           *)
(*                                                                         *)
(* Two specifications share the module:                                    *)
(*   Spec      main(): the loop over the rows, the window, the output file *)
(*   SpecMemo  one record built from one row (Entry, then QifEntry), the   *)
(*             row drawn from a set rich in remittance texts               *)
(***************************************************************************)
EXTENDS Integers, Sequences, FiniteSets, TLC

VARIABLES
    rows,      \* main: the rows csv.DictReader yields from filedescriptor
    start,     \* main: parameter start
    number,    \* main: parameter number (NoNumber models None)
    c,         \* main: the counter c, also the number of rows consumed
    qif,       \* main: qif._entries, each entry's _data (a list of lines)
    pc,        \* main: where main() is
    err,       \* main: the exception that ended the run, if any
    out_file,  \* main: the output file on disk
    row,       \* SpecMemo: the row under conversion
    built,     \* SpecMemo: the outcome of QifEntry(Entry(row))
    mpc        \* SpecMemo: "start" before the conversion, "built" after

vars == <<rows, start, number, c, qif, pc, err, out_file, row, built, mpc>>

(***************************************************************************)
(* Bounds of the model.                                                    *)
(***************************************************************************)
MaxRows == 3
MaxStart == 3
MaxNumber == 3
MaxFrags == 3

(***************************************************************************)
(* Python's str operations.                                                *)
(***************************************************************************)
Min(a, b) == IF a <= b THEN a ELSE b

\* s[a:e] for 0 <= a, 0 <= e
Slice(s, a, e) ==
    LET hi == Min(e, Len(s))
    IN  IF a >= hi THEN <<>> ELSE SubSeq(s, a + 1, hi)

\* s[:e]
Prefix(s, e) == Slice(s, 0, e)

\* whether sub occurs in s at 0-based offset i
MatchAt(s, sub, i) ==
    /\ i + Len(sub) <= Len(s)
    /\ \A k \in 1..Len(sub) : s[i + k] = sub[k]

\* s.startswith(sub)
StartsWith(s, sub) == MatchAt(s, sub, 0)

\* s.endswith(sub)
EndsWith(s, sub) == Len(sub) <= Len(s) /\ MatchAt(s, sub, Len(s) - Len(sub))

\* sub in s
Contains(s, sub) == \E i \in 0..Len(s) : MatchAt(s, sub, i)

\* s.index(sub): the lowest offset; NotFound stands for the ValueError
NotFound == -1
Index(s, sub) ==
    IF Contains(s, sub)
    THEN CHOOSE i \in 0..Len(s) :
            /\ MatchAt(s, sub, i)
            /\ \A j \in 0..(i - 1) : ~MatchAt(s, sub, j)
    ELSE NotFound

\* s.strip(): the whitespace of the model's alphabet is the space and "\n"
IsSpace(ch) == ch \in {" ", "\n", "\t"}

RECURSIVE LStrip(_)
LStrip(s) ==
    IF s # <<>> /\ IsSpace(Head(s)) THEN LStrip(Tail(s)) ELSE s

RECURSIVE RStrip(_)
RStrip(s) ==
    IF s # <<>> /\ IsSpace(s[Len(s)]) THEN RStrip(SubSeq(s, 1, Len(s) - 1)) ELSE s

Strip(s) == RStrip(LStrip(s))

\* s.replace(old, new) for one-character old and new
Replace(s, old, new) == [i \in 1..Len(s) |-> IF s[i] = old THEN new ELSE s[i]]

\* sep.join(list)
RECURSIVE Join(_, _)
Join(sep, list) ==
    IF list = <<>> THEN <<>>
    ELSE IF Len(list) = 1 THEN list[1]
    ELSE list[1] \o sep \o Join(sep, Tail(list))

(***************************************************************************)
(* String literals of the program.                                         *)
(***************************************************************************)
NaamMarker == <<"N","a","a","m",":"," ">>
KenmerkMarker == <<"K","e","n","m","e","r","k",":"," ">>
OmschrijvingMarker == <<"O","m","s","c","h","r","i","j","v","i","n","g",":"," ">>
OmschrijvingProbe == <<"O","m","s","c","h","r","i","j","v","i","n","g",":">>
IbanMarker == <<"I","B","A","N",":"," ">>
SepaIncasso == <<"S","E","P","A"," ","I","n","c","a","s","s","o">>
IngPrefix == <<"I","N","G",">">>
IngBankPrefix == <<"I","N","G"," ","B","A","N","K",">">>
ChipknipPrefix == <<"O","P","L","."," ","C","H","I","P","K","N","I","P">>
Bij == <<"B","i","j">>
Af == <<"A","f">>
TypeBank == <<"!","T","y","p","e",":","B","a","n","k">>
DotCsv == <<".","c","s","v">>
DotQif == <<".","q","i","f">>
NL == <<"\n">>
NaamOffset == 6
GeldautomaatLen == 32
DiversenLen == 64

ColDatum == "Datum"
ColBedrag == "Bedrag (EUR)"
ColAfBij == "Af Bij"
ColNaam == "Naam / Omschrijving"
ColMededelingen == "Mededelingen"
ColMutatiesoort == "Mutatiesoort"
ColAmount == "amount"
Columns == {ColDatum, ColBedrag, ColAfBij, ColNaam, ColMededelingen, ColMutatiesoort}

(***************************************************************************)
(* Outcomes: a value, None, or a raised exception with its arguments.      *)
(***************************************************************************)
Str(s) == [kind |-> "str", val |-> s, exc |-> "", args |-> <<>>]
NoneResult == [kind |-> "none", val |-> <<>>, exc |-> "", args |-> <<>>]
Raise(e, a) == [kind |-> "raise", val |-> <<>>, exc |-> e, args |-> a]
Ok(v) == [kind |-> "ok", val |-> v, exc |-> "", args |-> <<>>]
NoError == [exc |-> "", args |-> <<>>]
ErrorOf(r) == [exc |-> r.exc, args |-> r.args]

(***************************************************************************)
(* class Entry                                                             *)
(***************************************************************************)
\* Entry._clean_up: data['amount'] = data['Bedrag (EUR)'].replace(',', '.')
_clean_up(data) ==
    IF ColBedrag \notin DOMAIN data
    THEN Raise("KeyError", <<ColBedrag>>)
    ELSE Ok((ColAmount :> Replace(data[ColBedrag], ",", ".")) @@ data)

\* Entry(data)
Entry(data) == _clean_up(data)

\* Entry.__getitem__ raises KeyError exactly when the key is absent
HasItem(entry, item) == item \in DOMAIN entry

(***************************************************************************)
(* class QifEntry: the memo strategies                                     *)
(***************************************************************************)
_memo_geldautomaat(mededelingen, omschrijving) ==
    IF \/ StartsWith(omschrijving, IngPrefix)
       \/ StartsWith(omschrijving, IngBankPrefix)
       \/ StartsWith(omschrijving, ChipknipPrefix)
    THEN Str(omschrijving)
    ELSE Str(Prefix(mededelingen, GeldautomaatLen))

\* a faulty variant of _memo_incasso: a missing marker yields None, so that
\* _memo falls back to the default memo
_memo_incasso_silent(mededelingen, omschrijving) ==
    IF \/ StartsWith(omschrijving, SepaIncasso)
       \/ StartsWith(mededelingen, SepaIncasso)
    THEN IF \/ Index(mededelingen, NaamMarker) = NotFound
            \/ Index(mededelingen, KenmerkMarker) = NotFound
         THEN NoneResult
         ELSE Str(Slice(mededelingen,
                        Index(mededelingen, NaamMarker) + NaamOffset,
                        Index(mededelingen, KenmerkMarker)))
    ELSE NoneResult

\* a faulty variant of _memo_incasso: the name is cut from the start of
\* "Naam: ", not from its end
_memo_incasso_nooffset(mededelingen, omschrijving) ==
    IF \/ StartsWith(omschrijving, SepaIncasso)
       \/ StartsWith(mededelingen, SepaIncasso)
    THEN IF \/ Index(mededelingen, NaamMarker) = NotFound
            \/ Index(mededelingen, KenmerkMarker) = NotFound
         THEN Raise("Exception", <<mededelingen, omschrijving>>)
         ELSE Str(Slice(mededelingen,
                        Index(mededelingen, NaamMarker),
                        Index(mededelingen, KenmerkMarker)))
    ELSE NoneResult

_memo_incasso(mededelingen, omschrijving) ==
    IF \/ StartsWith(omschrijving, SepaIncasso)
       \/ StartsWith(mededelingen, SepaIncasso)
    THEN IF \/ Index(mededelingen, NaamMarker) = NotFound
            \/ Index(mededelingen, KenmerkMarker) = NotFound
         THEN \* except ValueError: raise Exception(mededelingen, omschrijving)
              Raise("Exception", <<mededelingen, omschrijving>>)
         ELSE Str(Slice(mededelingen,
                        Index(mededelingen, NaamMarker) + NaamOffset,
                        Index(mededelingen, KenmerkMarker)))
    ELSE NoneResult

_memo_internetbankieren(mededelingen, omschrijving) ==
    IF Index(mededelingen, NaamMarker) = NotFound
    THEN NoneResult                       \* except ValueError: return None
    ELSE LET s == Index(mededelingen, NaamMarker) + NaamOffset
             e == IF Contains(mededelingen, OmschrijvingProbe)
                  THEN Index(mededelingen, OmschrijvingMarker)
                  ELSE Index(mededelingen, IbanMarker)
         IN  IF e = NotFound
             THEN NoneResult              \* except ValueError: return None
             ELSE Str(Slice(mededelingen, s, e))

_memo_diversen(mededelingen, omschrijving) ==
    Str(Prefix(mededelingen, DiversenLen))

_memo_verzamelbetaling(mededelingen, omschrijving) ==
    IF Contains(mededelingen, NaamMarker)
    THEN IF Index(mededelingen, KenmerkMarker) = NotFound
         THEN Raise("ValueError", <<>>)   \* str.index, not caught by _memo
         ELSE Str(Slice(mededelingen,
                        Index(mededelingen, NaamMarker) + NaamOffset,
                        Index(mededelingen, KenmerkMarker)))
    ELSE NoneResult

\* the categories of the memo_method table of _memo
MemoCategories ==
    {"Diversen", "Betaalautomaat", "Geldautomaat", "Incasso",
     "Internetbankieren", "Overschrijving", "Verzamelbetaling"}

\* memo_method[mutatie_soort](mededelingen, omschrijving)
memo_method(mutatie_soort, mededelingen, omschrijving) ==
    CASE mutatie_soort = "Diversen" -> _memo_diversen(mededelingen, omschrijving)
      [] mutatie_soort \in {"Betaalautomaat", "Geldautomaat"} ->
             _memo_geldautomaat(mededelingen, omschrijving)
      [] mutatie_soort = "Incasso" -> _memo_incasso(mededelingen, omschrijving)
      [] mutatie_soort \in {"Internetbankieren", "Overschrijving"} ->
             _memo_internetbankieren(mededelingen, omschrijving)
      [] mutatie_soort = "Verzamelbetaling" ->
             _memo_verzamelbetaling(mededelingen, omschrijving)
      [] OTHER -> NoneResult              \* except KeyError: pass

\* a faulty variant of _entry_type: the table lacks Storting
_entry_type_nostorting(mutatie_soort) ==
    CASE mutatie_soort \in {"Geldautomaat", "Betaalautomaat"} -> Str(<<"A","T","M">>)
      [] mutatie_soort \in {"Internetbankieren", "Incasso", "Verzamelbetaling"} ->
             Str(<<"T","r","a","n","s","f","e","r">>)
      [] OTHER -> NoneResult

\* QifEntry._entry_type: the label of the category, or None
_entry_type(mutatie_soort) ==
    CASE mutatie_soort = "Geldautomaat" -> Str(<<"A","T","M">>)
      [] mutatie_soort = "Internetbankieren" -> Str(<<"T","r","a","n","s","f","e","r">>)
      [] mutatie_soort = "Incasso" -> Str(<<"T","r","a","n","s","f","e","r">>)
      [] mutatie_soort = "Verzamelbetaling" -> Str(<<"T","r","a","n","s","f","e","r">>)
      [] mutatie_soort = "Betaalautomaat" -> Str(<<"A","T","M">>)
      [] mutatie_soort = "Storting" -> Str(<<"D","e","p","o","s","i","t">>)
      [] OTHER -> NoneResult              \* except KeyError: return None

\* the default memo: f"{Mededelingen} {Naam / Omschrijving}"
DefaultMemo(entry) == entry[ColMededelingen] \o <<" ">> \o entry[ColNaam]

\* QifEntry._memo
_memo(entry) ==
    IF ~HasItem(entry, ColMutatiesoort) THEN Raise("KeyError", <<ColMutatiesoort>>)
    ELSE IF ~HasItem(entry, ColMededelingen) THEN Raise("KeyError", <<ColMededelingen>>)
    ELSE IF ~HasItem(entry, ColNaam) THEN Raise("KeyError", <<ColNaam>>)
    ELSE
    LET mutatie_soort == entry[ColMutatiesoort]
        r == memo_method(mutatie_soort, entry[ColMededelingen], entry[ColNaam])
        memo == IF r.kind = "str" THEN r.val ELSE DefaultMemo(entry)
        type == _entry_type(mutatie_soort)
    IN  IF r.kind = "raise" THEN r        \* the finally block runs, the exception goes on
        ELSE IF type.kind = "str" THEN Str(type.val \o <<" ">> \o memo)
        ELSE Str(Strip(memo))

\* QifEntry._amount_format
_amount_format(entry) ==
    IF ~HasItem(entry, ColAfBij) THEN Raise("KeyError", <<ColAfBij>>)
    ELSE IF entry[ColAfBij] = Bij THEN Str(<<"+">> \o entry[ColAmount])
    ELSE Str(<<"-">> \o entry[ColAmount])

\* QifEntry._date_format: YYYYMMDD to DD/MM/YYYY, by slices
_date_format(date_str) ==
    Slice(date_str, 6, 8) \o <<"/">> \o Slice(date_str, 4, 6) \o <<"/">>
        \o Slice(date_str, 0, 4)

\* a faulty variant of processing: the U line carries the amount unsigned
processing_unsigned(entry) ==
    IF ~HasItem(entry, ColDatum) THEN Raise("KeyError", <<ColDatum>>)
    ELSE IF _amount_format(entry).kind = "raise" THEN _amount_format(entry)
    ELSE IF ~HasItem(entry, ColNaam) THEN Raise("KeyError", <<ColNaam>>)
    ELSE IF _memo(entry).kind = "raise" THEN _memo(entry)
    ELSE Ok(<< <<"D">> \o _date_format(entry[ColDatum]),
               <<"T">> \o _amount_format(entry).val,
               <<"U">> \o entry[ColAmount],
               <<"P">> \o entry[ColNaam],
               <<"M">> \o _memo(entry).val,
               <<"C","c">>,
               <<"N">>,
               <<"^">> >>)

\* QifEntry.processing: the lines of one record, or the first exception
processing(entry) ==
    IF ~HasItem(entry, ColDatum) THEN Raise("KeyError", <<ColDatum>>)
    ELSE IF _amount_format(entry).kind = "raise" THEN _amount_format(entry)
    ELSE IF ~HasItem(entry, ColNaam) THEN Raise("KeyError", <<ColNaam>>)
    ELSE IF _memo(entry).kind = "raise" THEN _memo(entry)
    ELSE Ok(<< <<"D">> \o _date_format(entry[ColDatum]),
                <<"T">> \o _amount_format(entry).val,
                <<"U">> \o _amount_format(entry).val,
                <<"P">> \o entry[ColNaam],
                <<"M">> \o _memo(entry).val,
                <<"C","c">>,
                <<"N">>,
                <<"^">> >>)

\* QifEntry(entry): _data after processing, or the exception
QifEntry(entry) == processing(entry)

\* QifEntry.serialize, on the entry's _data
QifEntry_serialize(data) == Join(NL, data)

(***************************************************************************)
(* class QifEntries                                                        *)
(***************************************************************************)
\* a faulty variant of add_entry: a record that cannot be built is skipped
add_entry_skip(entries, entry) ==
    LET q == QifEntry(entry)
    IN  IF q.kind = "raise" THEN Ok(entries) ELSE Ok(Append(entries, q.val))

\* QifEntries.add_entry: the new _entries, or the exception of QifEntry
add_entry(entries, entry) ==
    LET q == QifEntry(entry)
    IN  IF q.kind = "raise" THEN q ELSE Ok(Append(entries, q.val))

\* QifEntries.serialize
serialize(entries) ==
    Join(NL, <<TypeBank>> \o [i \in 1..Len(entries) |-> QifEntry_serialize(entries[i])])

(***************************************************************************)
(* main()                                                                  *)
(***************************************************************************)
\* number = None of parse_cmdline
NoNumber == -1

\* the truth value of number in "if number and ..."
Truthy(n) == n # NoNumber /\ n # 0

\* a faulty variant of the test "c >= start": the window opens one row early
InWindow_early(cnt, st) == cnt >= st - 1

\* "if c >= start": the row at position c is added
InWindow(cnt, st) == cnt >= st

\* a faulty variant of the break test: the loop breaks one row late
BreakAfter_late(cnt, st, num) == Truthy(num) /\ cnt > st + num - 1

\* "if number and c > start + number - 2: break"
BreakAfter(cnt, st, num) == Truthy(num) /\ cnt > st + num - 2

\* the output file's name
OutputName(input_filename) ==
    IF EndsWith(input_filename, DotCsv)
    THEN Slice(input_filename, 0, Len(input_filename) - 4) \o DotQif
    ELSE input_filename \o DotQif

NoFile == [exists |-> FALSE, name |-> <<>>, content |-> <<>>]

Filenames == { <<"a">> \o DotCsv, <<"b">> }

\* one iteration of "for entry in CsvEntries(filedescriptor)": the iterator
\* builds Entry(row); the body counts the row, adds it and may break
LoopStep ==
    /\ pc = "loop"
    /\ c < Len(rows)
    /\ LET entry == Entry(rows[c + 1])
           added == add_entry(qif, entry.val)
       IN  IF entry.kind = "raise"
           THEN /\ pc' = "aborted"
                /\ err' = ErrorOf(entry)
                /\ UNCHANGED <<c, qif>>
           ELSE IF ~InWindow(c + 1, start)
           THEN /\ c' = c + 1
                /\ UNCHANGED <<qif, pc, err>>
           ELSE IF added.kind = "raise"
           THEN /\ c' = c + 1
                /\ pc' = "aborted"
                /\ err' = ErrorOf(added)
                /\ UNCHANGED qif
           ELSE /\ c' = c + 1
                /\ qif' = added.val
                /\ pc' = IF BreakAfter(c + 1, start, number) THEN "open" ELSE "loop"
                /\ UNCHANGED err
    /\ UNCHANGED <<rows, start, number, out_file, row, built, mpc>>

\* the iterator is exhausted: the loop ends
LoopEnd ==
    /\ pc = "loop"
    /\ c = Len(rows)
    /\ pc' = "open"
    /\ UNCHANGED <<rows, start, number, c, qif, err, out_file, row, built, mpc>>

\* open(output_file, 'w'): the file exists and is empty
OpenOutput ==
    /\ pc = "open"
    /\ \E input_filename \in Filenames :
          out_file' = [exists |-> TRUE, name |-> OutputName(input_filename),
                       content |-> <<>>]
    /\ pc' = "write"
    /\ UNCHANGED <<rows, start, number, c, qif, err, row, built, mpc>>

\* out_fd.write(qif.serialize())
WriteOutput ==
    /\ pc = "write"
    /\ out_file' = [out_file EXCEPT !.content = serialize(qif)]
    /\ pc' = "done"
    /\ UNCHANGED <<rows, start, number, c, qif, err, row, built, mpc>>

(***************************************************************************)
(* The inputs of main().                                                   *)
(***************************************************************************)
RowA == [k \in Columns |->
           CASE k = ColDatum -> <<"2","0","1","4","0","1","3","1">>
             [] k = ColBedrag -> <<"1",",","5">>
             [] k = ColAfBij -> Af
             [] k = ColNaam -> <<"A","H">>
             [] k = ColMededelingen -> <<"x"," ","y">>
             [] k = ColMutatiesoort -> "Diversen"]

RowB == [k \in Columns |->
           CASE k = ColDatum -> <<"2","0","1","4","0","2","0","1">>
             [] k = ColBedrag -> <<"2","0",",","0","0">>
             [] k = ColAfBij -> Bij
             [] k = ColNaam -> <<"J","a","n">>
             [] k = ColMededelingen -> <<"l","o","o","n">>
             [] k = ColMutatiesoort -> "Storting"]

\* an Incasso record with the SEPA prefix and no "Kenmerk: "
RowBad == [k \in Columns |->
           CASE k = ColDatum -> <<"2","0","1","4","0","3","0","1">>
             [] k = ColBedrag -> <<"3",",","0">>
             [] k = ColAfBij -> Af
             [] k = ColNaam -> SepaIncasso
             [] k = ColMededelingen -> NaamMarker \o <<"B","o","b">>
             [] k = ColMutatiesoort -> "Incasso"]

MainRows == {RowA, RowB, RowBad}

\* the headers of the files of Spec: complete, or lacking one column
MainHeaders == {Columns, Columns \ {ColBedrag}, Columns \ {ColDatum}}

\* the row as DictReader yields it under a header
Under(header, r) == [k \in header |-> r[k]]

SeqsUpTo(S, n) == UNION {[1..k -> S] : k \in 0..n}

Init ==
    /\ \E header \in MainHeaders : \E rs \in SeqsUpTo(MainRows, MaxRows) :
          rows = [i \in 1..Len(rs) |-> Under(header, rs[i])]
    /\ start \in 0..MaxStart
    /\ number \in {NoNumber} \cup 0..MaxNumber
    /\ c = 0
    /\ qif = <<>>
    /\ pc = "loop"
    /\ err = NoError
    /\ out_file = NoFile
    /\ row = <<>>
    /\ built = NoneResult
    /\ mpc = "idle"

Next == LoopStep \/ LoopEnd \/ OpenOutput \/ WriteOutput

Spec == Init /\ [][Next]_vars

(***************************************************************************)
(* One record: QifEntry(Entry(row)), as the iterator and add_entry build   *)
(* it, on rows drawn from a set rich in remittance texts.                  *)
(***************************************************************************)
Fragments ==
    { SepaIncasso \o <<" ">>, NaamMarker, KenmerkMarker, OmschrijvingMarker,
      OmschrijvingProbe, IbanMarker, <<"B","o","b"," ">> }

\* the concatenations of at most n fragments
RECURSIVE NotesUpTo(_)
NotesUpTo(n) ==
    IF n = 0 THEN { <<>> }
    ELSE LET shorter == NotesUpTo(n - 1)
         IN  shorter \cup { x \o f : x \in shorter, f \in Fragments }

Payees == { <<>>, SepaIncasso, IngPrefix \o <<"x">> }

Categories ==
    {"Diversen", "Betaalautomaat", "Geldautomaat", "Incasso", "Internetbankieren",
     "Overschrijving", "Verzamelbetaling", "Storting", "Onbekend"}

MemoRow(cat, payee, notes) ==
    [k \in Columns |->
       CASE k = ColDatum -> <<"2","0","1","4","0","1","3","1">>
         [] k = ColBedrag -> <<"1",",","5">>
         [] k = ColAfBij -> Af
         [] k = ColNaam -> payee
         [] k = ColMededelingen -> notes
         [] k = ColMutatiesoort -> cat]

MemoRows ==
    { MemoRow(cat, payee, notes) :
        cat \in Categories, payee \in Payees, notes \in NotesUpTo(MaxFrags) }
    \cup { Under(Columns \ {k}, RowA) : k \in Columns }

\* the record of one row: Entry(row), then QifEntry(entry)
Transform(r) ==
    LET entry == Entry(r)
    IN  IF entry.kind = "raise" THEN entry ELSE QifEntry(entry.val)

InitMemo ==
    /\ row \in MemoRows
    /\ built = NoneResult
    /\ mpc = "start"
    /\ rows = <<>>
    /\ start = 0
    /\ number = NoNumber
    /\ c = 0
    /\ qif = <<>>
    /\ pc = "idle"
    /\ err = NoError
    /\ out_file = NoFile

BuildRecord ==
    /\ mpc = "start"
    /\ built' = Transform(row)
    /\ mpc' = "built"
    /\ UNCHANGED <<rows, start, number, c, qif, pc, err, out_file, row>>

NextMemo == BuildRecord

SpecMemo == InitMemo /\ [][NextMemo]_vars

(***************************************************************************)
(* Properties of one record (checked under SpecMemo).                      *)
(***************************************************************************)
Notes == row[ColMededelingen]
Payee == row[ColNaam]
Category == row[ColMutatiesoort]

\* the row has every required column and its record has been built
BuiltFull == mpc = "built" /\ DOMAIN row = Columns

\* the memo of the built record: its M line without the tag
BuiltMemo == Tail(built.val[5])

Transfer == <<"T","r","a","n","s","f","e","r">>
LabelledCategories ==
    {"Geldautomaat", "Betaalautomaat", "Internetbankieren", "Incasso",
     "Verzamelbetaling", "Storting"}
LabelOf(cat) ==
    CASE cat \in {"Geldautomaat", "Betaalautomaat"} -> <<"A","T","M">>
      [] cat \in {"Internetbankieren", "Incasso", "Verzamelbetaling"} -> Transfer
      [] cat = "Storting" -> <<"D","e","p","o","s","i","t">>

\* the final memo of a resolved text: labelled and untrimmed, or trimmed
FinalMemo(cat, text) ==
    IF cat \in LabelledCategories THEN LabelOf(cat) \o <<" ">> \o text
    ELSE Strip(text)

\* notes + single space + payee
NotesAndPayee == Notes \o <<" ">> \o Payee

\* sub occurs in s at offset i and nowhere before
FirstAt(s, sub, i) ==
    /\ MatchAt(s, sub, i)
    /\ \A j \in 0..(i - 1) : ~MatchAt(s, sub, j)

HasSepaPrefix == StartsWith(Payee, SepaIncasso) \/ StartsWith(Notes, SepaIncasso)

\* an Incasso record with the SEPA prefix that lacks one of the two markers
MalformedIncasso ==
    /\ Category = "Incasso"
    /\ HasSepaPrefix
    /\ ~Contains(Notes, NaamMarker) \/ ~Contains(Notes, KenmerkMarker)

\* C4: a record of a category other than Incasso with every required column
\* never raises; without the marker structure of its strategy the memo is the
\* default memo (notes + space + payee, labelled or trimmed).
C4_OtherCategoriesNeverRaise ==
    (BuiltFull /\ Category # "Incasso") =>
        /\ built.kind = "ok"
        /\ ( /\ Category = "Verzamelbetaling"
             /\ ~Contains(Notes, NaamMarker) \/ ~Contains(Notes, KenmerkMarker) )
           => BuiltMemo = FinalMemo(Category, NotesAndPayee)
        /\ ( /\ Category \in {"Internetbankieren", "Overschrijving"}
             /\ ~Contains(Notes, NaamMarker) )
           => BuiltMemo = FinalMemo(Category, NotesAndPayee)

\* C5: an Incasso record with the SEPA prefix whose notes lack "Naam: " or
\* "Kenmerk: " raises an error carrying the notes and the payee, and no record
\* (hence no default memo) is built; the error is raised in no other case.
C5_IncassoFatal ==
    BuiltFull =>
        /\ MalformedIncasso =>
              /\ built.kind = "raise"
              /\ built.exc = "Exception"
              /\ built.args = <<Notes, Payee>>
        /\ built.exc = "Exception" => MalformedIncasso
        /\ (Category = "Incasso" /\ ~MalformedIncasso) => built.kind = "ok"

C5_Witness ==
    /\ BuiltFull
    /\ MalformedIncasso
    /\ Contains(Notes, NaamMarker)
    /\ built.kind = "raise"

\* the offsets of the first "Omschrijving: " and of the first "IBAN: "
EndOffsets ==
    { j \in 0..Len(Notes) :
        FirstAt(Notes, OmschrijvingMarker, j) \/ FirstAt(Notes, IbanMarker, j) }

\* C6: for Internetbankieren and Overschrijving, with "Naam: " in the notes the
\* name runs from just after the first "Naam: " to whichever of
\* "Omschrijving: " and "IBAN: " occurs first (stated where that marker lies
\* after "Naam: "); without "Naam: " the default memo is used.
C6_FirstEndMarker ==
    (BuiltFull /\ Category \in {"Internetbankieren", "Overschrijving"}) =>
        /\ ~Contains(Notes, NaamMarker) =>
              /\ built.kind = "ok"
              /\ BuiltMemo = FinalMemo(Category, NotesAndPayee)
        /\ \A i \in 0..Len(Notes) : \A e \in EndOffsets :
              ( /\ FirstAt(Notes, NaamMarker, i)
                /\ \A j \in EndOffsets : e <= j
                /\ e >= i + Len(NaamMarker) )
              => /\ built.kind = "ok"
                 /\ BuiltMemo =
                       FinalMemo(Category, SubSeq(Notes, i + Len(NaamMarker) + 1, e))

\* an Incasso record with the SEPA prefix whose first "Naam: " (at i) is
\* followed by the first "Kenmerk: " (at j)
IncassoWithMarkers(i, j) ==
    /\ BuiltFull
    /\ Category = "Incasso"
    /\ HasSepaPrefix
    /\ FirstAt(Notes, NaamMarker, i)
    /\ FirstAt(Notes, KenmerkMarker, j)
    /\ j >= i + Len(NaamMarker)

\* C7 as claimed: the memo is "Transfer " and the text between the markers,
\* trimmed.
C7_TransferTrimmed ==
    BuiltFull => \A i, j \in 0..Len(Notes) :
        IncassoWithMarkers(i, j) =>
            /\ built.kind = "ok"
            /\ BuiltMemo = Transfer \o <<" ">>
                              \o Strip(SubSeq(Notes, i + Len(NaamMarker) + 1, j))

\* C7 as amended: the memo is "Transfer " and the text between the markers
\* as it stands, its leading and trailing whitespace kept.
C7_TransferUntrimmed ==
    BuiltFull => \A i, j \in 0..Len(Notes) :
        IncassoWithMarkers(i, j) =>
            /\ built.kind = "ok"
            /\ BuiltMemo = Transfer \o <<" ">>
                              \o SubSeq(Notes, i + Len(NaamMarker) + 1, j)

\* "... Naam: Bob Kenmerk: " gives "Transfer Bob ", the trailing space kept
C7_Witness ==
    /\ BuiltFull
    /\ \E i, j \in 0..Len(Notes) :
          /\ IncassoWithMarkers(i, j)
          /\ j > i + Len(NaamMarker)
          /\ Notes[j] = " "
    /\ built.kind = "ok"
    /\ BuiltMemo[Len(BuiltMemo)] = " "

\* the category has no strategy, or its strategy yields no result
NoStrategyResult ==
    \/ Category \notin {"Diversen", "Betaalautomaat", "Geldautomaat", "Incasso",
                        "Internetbankieren", "Overschrijving", "Verzamelbetaling"}
    \/ Category = "Incasso" /\ ~HasSepaPrefix
    \/ Category \in {"Internetbankieren", "Overschrijving"}
          /\ ~Contains(Notes, NaamMarker)
    \/ Category = "Verzamelbetaling" /\ ~Contains(Notes, NaamMarker)

\* C8: without a strategy result the resolved memo is notes + space + payee;
\* the final memo is "<label> " + that text, untrimmed, when the category is
\* one of the six labelled ones, and that text trimmed otherwise.  Every
\* record of a labelled category carries its label, every other one a
\* trimmed memo.
C8_FallbackAndLabel ==
    BuiltFull =>
        /\ NoStrategyResult =>
              /\ built.kind = "ok"
              /\ BuiltMemo = FinalMemo(Category, NotesAndPayee)
        /\ (built.kind = "ok" /\ Category \in LabelledCategories) =>
              StartsWith(BuiltMemo, LabelOf(Category) \o <<" ">>)
        /\ (built.kind = "ok" /\ Category \notin LabelledCategories) =>
              BuiltMemo = Strip(BuiltMemo)

\* a Storting record: no strategy, label Deposit, the trailing space kept
C8_Witness ==
    /\ BuiltFull
    /\ Category = "Storting"
    /\ Payee = <<>>
    /\ Notes # <<>>
    /\ built.kind = "ok"
    /\ BuiltMemo = <<"D","e","p","o","s","i","t"," ">> \o Notes \o <<" ">>

(***************************************************************************)
(* Properties of main() (checked under Spec).                              *)
(***************************************************************************)
Max(a, b) == IF a >= b THEN a ELSE b

\* the records of the rows at positions lo..hi, in order
RecordsOf(lo, hi) ==
    IF hi < lo THEN <<>>
    ELSE [i \in 1..(hi - lo + 1) |-> Transform(rows[lo + i - 1]).val]

\* the run has ended with the document written
Written == pc = "done"

\* C1: with start N >= 1 and count M >= 1 the document holds exactly the rows
\* at positions N .. min(N+M-1, n), in their order, and no other row.
C1_Windowing ==
    (Written /\ start >= 1 /\ number >= 1) =>
        /\ qif = RecordsOf(start, Min(start + number - 1, Len(rows)))
        /\ out_file.content = serialize(qif)

\* rows 2 of 3 with count 1: one record, the input not exhausted
C1_Witness ==
    /\ Written
    /\ start = 2
    /\ number = 1
    /\ Len(rows) = 3
    /\ rows[1] # rows[2]
    /\ rows[3] # rows[2]
    /\ Len(qif) = 1

\* start of parse_cmdline when no start is supplied
DefaultStart == 0

\* C2: with the default start and a count M >= 1 the document holds exactly
\* the first min(M, n) rows.
C2_DefaultStartWindow ==
    (Written /\ start = DefaultStart /\ number >= 1) =>
        /\ qif = RecordsOf(1, Min(number, Len(rows)))
        /\ out_file.content = serialize(qif)

\* the loop has ended: the input is exhausted or the break was taken
LoopOver ==
    \/ c = Len(rows)
    \/ number >= 1 /\ c >= start /\ c >= start + number - 1

\* C3: a record of the window that cannot be built aborts the run; it is never
\* skipped, and the abort comes before the output file is opened: the file
\* exists only once every record of the window has been built.
C3_AbortBeforeOutput ==
    /\ pc = "aborted" => (~out_file.exists /\ err # NoError)
    /\ pc \in {"loop", "open", "write", "done"} =>
          \A p \in 1..c : p >= start => Transform(rows[p]).kind = "ok"
    /\ out_file.exists =>
          /\ pc \in {"write", "done"}
          /\ err = NoError
          /\ LoopOver
          /\ qif = RecordsOf(Max(start, 1), c)
    /\ Written => out_file.content = serialize(qif)

\* a run aborted by its second selected record, the first one built
C3_Witness ==
    /\ pc = "aborted"
    /\ err.exc = "Exception"
    /\ Len(qif) = 1
    /\ c >= 2
    /\ ~out_file.exists

\* the lines of a text
RECURSIVE SplitLines(_)
SplitLines(s) ==
    IF ~Contains(s, NL) THEN <<s>>
    ELSE <<SubSeq(s, 1, Index(s, NL))>>
            \o SplitLines(SubSeq(s, Index(s, NL) + 2, Len(s)))

\* the text is header, then per added row the eight lines of its record
WellFormed(text) ==
    LET L == SplitLines(text)
    IN  /\ L[1] = TypeBank
        /\ Len(L) = 1 + 8 * Len(qif)
        /\ \A i \in 1..Len(qif) :
              LET b == 8 * (i - 1) + 1
                  r == rows[Max(start, 1) + i - 1]
                  d == r[ColDatum]
                  amount == [k \in 1..Len(r[ColBedrag]) |->
                               IF r[ColBedrag][k] = "," THEN "." ELSE r[ColBedrag][k]]
                  sign == IF r[ColAfBij] = Bij THEN "+" ELSE "-"
              IN  /\ L[b + 1] = <<"D", d[7], d[8], "/", d[5], d[6], "/",
                                  d[1], d[2], d[3], d[4]>>
                  /\ L[b + 2] = <<"T", sign>> \o amount
                  /\ L[b + 3] = <<"U">> \o Tail(L[b + 2])
                  /\ L[b + 4] = <<"P">> \o r[ColNaam]
                  /\ Head(L[b + 5]) = "M"
                  /\ L[b + 6] = <<"C","c">>
                  /\ L[b + 7] = <<"N">>
                  /\ L[b + 8] = <<"^">>
        /\ Cardinality({k \in 1..Len(L) : L[k] = <<"^">>}) = Len(qif)

\* C9: after any sequence of successful add_entry calls the serialized
\* document is "!Type:Bank" followed, per added record in insertion order, by
\* the lines D, T, U, P, M, "Cc", "N", "^", T and U carrying the same signed
\* amount; the "^" lines are as many as the records.
C9_DocumentStructure ==
    pc # "idle" =>
        /\ WellFormed(serialize(qif))
        /\ Written => WellFormed(out_file.content)

\* a written document of two records, one of them a credit
C9_Witness ==
    /\ Written
    /\ Len(qif) = 2
    /\ \E i \in 1..Len(rows) : rows[i][ColAfBij] = Bij
    /\ Len(SplitLines(out_file.content)) = 17

\* the window: the positions from start on, as many as number when it is given
WindowFirst == Max(start, 1)
WindowLast ==
    IF Truthy(number) THEN Min(Max(start + number - 1, 1), Len(rows)) ELSE Len(rows)
Window == WindowFirst..WindowLast

\* how the run ended
Outcome ==
    [pc |-> pc, err |-> err, exists |-> out_file.exists, doc |-> out_file.content]

\* the outcome the rows of the window alone determine: the first of them that
\* cannot be built aborts the run, otherwise their records are written
FromWindow ==
    LET bad == {p \in Window : Transform(rows[p]).kind = "raise"}
    IN  IF bad # {}
        THEN LET p == CHOOSE q \in bad : \A o \in bad : q <= o
             IN  [pc |-> "aborted", err |-> ErrorOf(Transform(rows[p])),
                  exists |-> FALSE, doc |-> <<>>]
        ELSE [pc |-> "done", err |-> NoError, exists |-> TRUE,
              doc |-> serialize(RecordsOf(WindowFirst, WindowLast))]

\* the rows before the window that Entry cannot normalise
BadBeforeWindow ==
    {p \in 1..Min(WindowFirst - 1, Len(rows)) : Entry(rows[p]).kind = "raise"}

\* C10 as claimed: the result depends only on the rows inside the window, and
\* no row after the last row of the window is consumed.
C10_WindowOnly ==
    pc # "idle" =>
        /\ c <= WindowLast
        /\ pc \in {"done", "aborted"} => Outcome = FromWindow

\* C10 as amended: rows outside the window never reach QifEntry and no row
\* after the window is consumed; the result depends on the rows inside the
\* window and, for the rows before it, only on whether Entry can normalise
\* them (the amount column is there).
C10_WindowAndNormalisation ==
    pc # "idle" =>
        /\ c <= WindowLast
        /\ pc \in {"done", "aborted"} =>
              IF BadBeforeWindow # {}
              THEN Outcome = [pc |-> "aborted",
                              err |-> [exc |-> "KeyError", args |-> <<ColBedrag>>],
                              exists |-> FALSE, doc |-> <<>>]
              ELSE Outcome = FromWindow
        /\ (pc = "aborted" /\ err.exc = "Exception") =>
              \E p \in Window : Transform(rows[p]).exc = "Exception"
        /\ Len(qif) <= Cardinality(Window)

\* malformed Incasso rows right before and right after a one-row window
C10_Witness ==
    /\ Written
    /\ Len(rows) = 3
    /\ start = 2
    /\ number = 1
    /\ rows[1] = RowBad
    /\ rows[3] = RowBad
    /\ Len(qif) = 1

=============================================================================
